---- MODULE Spec2Model ----
(***************************************************************************)
(* A model of the multi-party document signing core of multi-sign:         *)
(* src/app/provider/DocumentProvider.tsx (the React provider holding the   *)
(* document collection), src/app/utils/jsonUtils.ts (canonicalizeJSON,     *)
(* kept as src/unnamed/part_002), src/app/utils/pdfUtils.ts and the        *)
(* signMessage capability of TransactionProvider                           *)
(* (src/app/provider/ProvidersWrapper.tsx).                                *)
(*                                                                         *)
(* One provider instance (one browser tab) is modelled.  Strings of the    *)
(* program are TLA+ strings; the strings that canonicalizeJSON sorts and   *)
(* quotes (object keys, string values) are sequences of one-character      *)
(* strings so that sorting and escaping are computed, not assumed.         *)
(* Dates are integers (milliseconds); their ISO form is computed by        *)
(* toISOString.  keccak256, hashMessage and the wallet's ECDSA signature   *)
(* are modelled as ideal (collision-free, unforgeable) functions.          *)
(* The display flags isLoading, isSigning and error of the provider are    *)
(* read by no operation of the provider and are left out.                  *)
(***************************************************************************)
EXTENDS Integers, Sequences, FiniteSets, TLC

(***************************************************************************)
(* Bounds of the model.                                                    *)
(***************************************************************************)
\* documents created in one run, with every input of CreateDocumentParams
MaxDocs == 1
\* documents created in one run, with the inputs of FrameParams
MaxFrameDocs == 2
\* sign requests that may wait for the wallet at the same time
MaxCalls == 2

(***************************************************************************)
(* JavaScript values.                                                      *)
(***************************************************************************)
\* the value undefined (an absent optional property reads as undefined too)
Undefined == "<undefined>"
\* the value null
Null == [id |-> "<null>"]

Digit == <<"0", "1", "2", "3", "4", "5", "6", "7", "8", "9">>

\* String(n) for a natural number below 100
NumberToString(n) ==
  IF n < 10 THEN Digit[n + 1] ELSE Digit[(n \div 10) + 1] \o Digit[(n % 10) + 1]

\* Date.prototype.toISOString for the instants of the model: instant t is t
\* milliseconds after 2026-01-06T12:00:00.000Z (t < 100)
toISOString(t) ==
  "2026-01-06T12:00:00.0" \o Digit[(t \div 10) + 1] \o Digit[(t % 10) + 1] \o "Z"

\* the instants the model's clock can show
Instants == 0..29

\* new Date(isoString): the inverse of toISOString on the instants of the model
NewDate(iso) == CHOOSE t \in Instants : toISOString(t) = iso

\* String.prototype.toLowerCase on the strings the program lower-cases
\* (wallet addresses, and e-mail addresses in the match policy)
toLowerCase(s) ==
  CASE s = "0xA11CE" -> "0xa11ce"
    [] s = "0xB0B" -> "0xb0b"
    [] s = "0xDEAD" -> "0xdead"
    [] s = "Alice@via.io" -> "alice@via.io"
    [] OTHER -> s

(***************************************************************************)
(* The authenticated identities (Keycloak token + WalletConnect session).  *)
(***************************************************************************)
\* What the identity provider and the wallet session hold for each login.
\* sub, preferred_username, email are token claims; account is the first
\* account of the viasecurechain namespace.
Logins ==
  { [sub |-> "u-alice", preferred_username |-> "alice", email |-> "alice@via.io",
     account |-> "viasecurechain:1:0xa11ce"],
    [sub |-> "u-bob", preferred_username |-> "bob", email |-> "bob@via.io",
     account |-> "viasecurechain:1:0xB0B"] }

\* account.split(':')[2] on the accounts of the model
AccountAddress(account) ==
  CASE account = "viasecurechain:1:0xa11ce" -> "0xa11ce"
    [] account = "viasecurechain:1:0xB0B" -> "0xB0B"

\* getCurrentUser: the DocumentUser of a login, null when not authenticated
getCurrentUser(login) ==
  IF login = Null THEN Null
  ELSE [userId |-> login.sub,
        username |-> IF login.preferred_username # Undefined
                     THEN login.preferred_username
                     ELSE IF login.email # Undefined THEN login.email
                     ELSE "Unknown User",
        email |-> login.email,
        walletAddress |-> AccountAddress(login.account)]

Users == { getCurrentUser(l) : l \in Logins }

(***************************************************************************)
(* Structured (JSON) values: content.data of a json document.              *)
(* An object keeps its properties in insertion order, as a JavaScript      *)
(* object does; keys and string values are sequences of characters.        *)
(***************************************************************************)
JNull == [t |-> "null"]
JUndefined == [t |-> "undefined"]
JNumber(n) == [t |-> "number", n |-> n]
JString(s) == [t |-> "string", s |-> s]
JArray(items) == [t |-> "array", items |-> items]
JObject(kv) == [t |-> "object", kv |-> kv]
Prop(k, v) == [k |-> k, v |-> v]

\* the UTF-16 code unit of each character used in the model
CharCode(c) ==
  CASE c = "\"" -> 34
    [] c = "," -> 44
    [] c = "1" -> 49
    [] c = "2" -> 50
    [] c = ":" -> 58
    [] c = "\\" -> 92
    [] c = "a" -> 97
    [] c = "b" -> 98
    [] c = "c" -> 99

\* the characters of a string, concatenated
RECURSIVE Concat(_)
Concat(cs) == IF cs = <<>> THEN "" ELSE Head(cs) \o Concat(Tail(cs))

\* Array.prototype.join
RECURSIVE Join(_, _)
Join(items, sep) ==
  IF items = <<>> THEN ""
  ELSE IF Len(items) = 1 THEN items[1]
  ELSE items[1] \o sep \o Join(Tail(items), sep)

\* a < b for strings: the comparison of the default Array.prototype.sort,
\* by UTF-16 code units
RECURSIVE StringLess(_, _)
StringLess(a, b) ==
  IF b = <<>> THEN FALSE
  ELSE IF a = <<>> THEN TRUE
  ELSE IF CharCode(Head(a)) # CharCode(Head(b))
       THEN CharCode(Head(a)) < CharCode(Head(b))
  ELSE StringLess(Tail(a), Tail(b))

\* a sequence without its i-th element
RemoveAt(seq, i) == [j \in 1..(Len(seq) - 1) |-> IF j < i THEN seq[j] ELSE seq[j + 1]]

\* Object.keys(obj).sort() (the keys of one object are distinct)
RECURSIVE SortKeys(_)
SortKeys(keys) ==
  IF keys = <<>> THEN <<>>
  ELSE LET i == CHOOSE i \in 1..Len(keys) :
                  \A j \in 1..Len(keys) : ~StringLess(keys[j], keys[i])
       IN <<keys[i]>> \o SortKeys(RemoveAt(keys, i))

\* Object.keys(obj)
ObjectKeys(obj) == [i \in 1..Len(obj.kv) |-> obj.kv[i].k]

\* obj[key]
GetProp(obj, key) ==
  LET i == CHOOSE i \in 1..Len(obj.kv) : obj.kv[i].k = key IN obj.kv[i].v

\* the JSON escape of one character of a string value
EscapeChar(c) ==
  CASE c = "\"" -> "\\\""
    [] c = "\\" -> "\\\\"
    [] OTHER -> c

\* JSON.stringify of a primitive (number or string)
JSONStringifyPrimitive(v) ==
  IF v.t = "number" THEN NumberToString(v.n)
  ELSE "\"" \o Concat([i \in 1..Len(v.s) |-> EscapeChar(v.s[i])]) \o "\""

\* canonicalizeJSON (jsonUtils.ts): keys sorted, no whitespace; a key is put
\* between quotes as it is
RECURSIVE canonicalizeJSON(_)
canonicalizeJSON_Unsorted(obj) ==
  IF obj = JNull THEN "null"
  ELSE IF obj = JUndefined THEN "undefined"
  ELSE IF obj.t \notin {"array", "object"} THEN JSONStringifyPrimitive(obj)
  ELSE IF obj.t = "array"
       THEN LET items == [i \in 1..Len(obj.items) |-> canonicalizeJSON(obj.items[i])]
            IN "[" \o Join(items, ",") \o "]"
  ELSE LET sortedKeys == ObjectKeys(obj)
           pairs == [i \in 1..Len(sortedKeys) |->
                       "\"" \o Concat(sortedKeys[i]) \o "\":"
                         \o canonicalizeJSON(GetProp(obj, sortedKeys[i]))]
       IN "{" \o Join(pairs, ",") \o "}"

canonicalizeJSON(obj) ==
  IF obj = JNull THEN "null"
  ELSE IF obj = JUndefined THEN "undefined"
  ELSE IF obj.t \notin {"array", "object"} THEN JSONStringifyPrimitive(obj)
  ELSE IF obj.t = "array"
       THEN LET items == [i \in 1..Len(obj.items) |-> canonicalizeJSON(obj.items[i])]
            IN "[" \o Join(items, ",") \o "]"
  ELSE LET sortedKeys == SortKeys(ObjectKeys(obj))
           pairs == [i \in 1..Len(sortedKeys) |->
                       "\"" \o Concat(sortedKeys[i]) \o "\":"
                         \o canonicalizeJSON(GetProp(obj, sortedKeys[i]))]
       IN "{" \o Join(pairs, ",") \o "}"

(***************************************************************************)
(* Hashing and the attestation message.                                    *)
(***************************************************************************)
\* ethers.keccak256(ethers.toUtf8Bytes(s)): an ideal hash, one digest per string
keccak256(s) == "keccak256(" \o s \o ")"

\* the canonical form hashDocumentContent hashes, chosen by content.type
CanonicalForm(content) ==
  CASE content.type = "text" -> content.data
    [] content.type = "json" -> canonicalizeJSON(content.data)
    [] content.type = "pdf" -> content.data.base64

\* hashDocumentContent: Keccak-256 of the canonical form
hashDocumentContent(content) == keccak256(CanonicalForm(content))

\* doc.requiredSigners.map(s => s.userId)
SignerIds(doc) == [i \in 1..Len(doc.requiredSigners) |-> doc.requiredSigners[i].userId]

\* createDocumentMessage, were the line of the document id left out
createDocumentMessage_NoDocumentId(doc) ==
  Join(<< "=== VIA DOCUMENT SIGNATURE ===",
          "",
          "Content Type: " \o doc.content.type,
          "Content Hash: " \o doc.content.hash,
          "Created: " \o toISOString(doc.createdAt),
          "Required Signers: " \o Join(SignerIds(doc), ", "),
          "",
          "By signing this message, I confirm that I have reviewed and approve this document.",
          "",
          "=== END SIGNATURE ===" >>, "\n")

\* createDocumentMessage, were its date line to show updatedAt
createDocumentMessage_UpdatedAt(doc) ==
  Join(<< "=== VIA DOCUMENT SIGNATURE ===",
          "",
          "Document ID: " \o doc.id,
          "Content Type: " \o doc.content.type,
          "Content Hash: " \o doc.content.hash,
          "Created: " \o toISOString(doc.updatedAt),
          "Required Signers: " \o Join(SignerIds(doc), ", "),
          "",
          "By signing this message, I confirm that I have reviewed and approve this document.",
          "",
          "=== END SIGNATURE ===" >>, "\n")

\* createDocumentMessage: the text every signer signs
createDocumentMessage(doc) ==
  Join(<< "=== VIA DOCUMENT SIGNATURE ===",
          "",
          "Document ID: " \o doc.id,
          "Content Type: " \o doc.content.type,
          "Content Hash: " \o doc.content.hash,
          "Created: " \o toISOString(doc.createdAt),
          "Required Signers: " \o Join(SignerIds(doc), ", "),
          "",
          "By signing this message, I confirm that I have reviewed and approve this document.",
          "",
          "=== END SIGNATURE ===" >>, "\n")

(***************************************************************************)
(* The wallet and signature recovery (ethers).                             *)
(***************************************************************************)
\* ethers.hashMessage: the EIP-191 hash of a message, ideal
hashMessage(message) == "eip191(" \o message \o ")"

\* the checksummed form in which ethers returns an address
ChecksumAddress(a) ==
  CASE toLowerCase(a) = "0xa11ce" -> "0xA11CE"
    [] toLowerCase(a) = "0xb0b" -> "0xB0B"
    [] OTHER -> "0xDEAD"

\* personal_sign by the wallet that holds the key of `address`: a 65-byte
\* signature over the EIP-191 hash of the message
PersonalSign(message, address) ==
  [key |-> toLowerCase(address), digest |-> hashMessage(message)]

\* ethers.recoverAddress on a well-formed signature: the signing address when
\* the digest is the signed one, an unrelated address otherwise
recoverAddress(digest, signature) ==
  IF signature.digest = digest THEN ChecksumAddress(signature.key)
  ELSE ChecksumAddress("0xdead")

(***************************************************************************)
(* The inputs of createDocument.                                           *)
(***************************************************************************)
\* contentData values: a string, an object, or a File (name, MIME type, size and the
\* base64 text that FileReader.readAsDataURL gives for its bytes)
StringData(v) == [kind |-> "string", value |-> v]
ObjectData(v) == [kind |-> "object", value |-> v]
FileData(name, type, size, base64) ==
  [kind |-> "File", name |-> name, type |-> type, size |-> size, base64 |-> base64]

\* JSON.parse on the JSON texts of the model; SyntaxError for any other text
JSONParse(text) ==
  CASE text = "{\"b\":1,\"a\":2}"
         -> [ok |-> TRUE,
             value |-> JObject(<<Prop(<<"b">>, JNumber(1)), Prop(<<"a">>, JNumber(2))>>)]
    [] OTHER -> [ok |-> FALSE, value |-> JNull]

\* validatePDF (pdfUtils.ts): the extension and the MIME type
validatePDF(file) ==
  /\ file.name \in {"contract.pdf", "scan.PDF"}
  /\ file.type = "application/pdf"

\* readPDFFile (pdfUtils.ts): the PDFData of a valid PDF file; the data URL is
\* "data:<type>;base64," followed by the base64 text, and split(',')[1]
\* is that text
readPDFFile(file) ==
  [base64 |-> file.base64, filename |-> file.name, mimeType |-> file.type,
   size |-> file.size]

ContentInputs ==
  { [contentType |-> "text", contentData |-> StringData("hello")],
    [contentType |-> "json", contentData |-> StringData("{\"b\":1,\"a\":2}")],
    [contentType |-> "json", contentData |-> StringData("{oops")],
    [contentType |-> "json",
     contentData |-> ObjectData(JObject(<<Prop(<<"a">>, JNumber(1)),
                                          Prop(<<"b">>, JUndefined)>>))],
    [contentType |-> "pdf",
     contentData |-> FileData("contract.pdf", "application/pdf", 3, "JVBERi0x")],
    [contentType |-> "pdf", contentData |-> StringData("JVBERi0x")] }

\* the identifiers a creator can name as required signers: user ids, bob's
\* e-mail as registered, alice's e-mail in another letter case, alice's
\* display name
SignerIdentifiers == {"u-alice", "u-bob", "bob@via.io", "Alice@via.io", "alice"}

\* the longest list of required signers a creator gives
MaxSigners == 2

\* the lists of distinct identifiers of length 1..MaxSigners
RequiredSignerInputs ==
  UNION { { l \in [1..n -> SignerIdentifiers] :
              \A i, j \in 1..n : l[i] = l[j] => i = j } : n \in 1..MaxSigners }

CreateDocumentParams ==
  { [contentType |-> c.contentType, contentData |-> c.contentData,
     requiredSigners |-> l, signImmediately |-> b] :
      c \in ContentInputs, l \in RequiredSignerInputs, b \in BOOLEAN }

(***************************************************************************)
(* The state of the provider.                                              *)
(***************************************************************************)
VARIABLES
  login,            \* the authenticated login (token + wallet session), or Null
  documents,        \* useState documents: the collection, newest first
  currentDocument,  \* useState currentDocument: the selected snapshot, or Null
  stored,           \* localStorage item 'via_documents', as JSON.stringify wrote it
  calls,            \* sign requests waiting for the wallet, oldest first
  clock,            \* the next reading of Date.now()
  lastCall,         \* how the last settled call ended: operation, error, value
  mount             \* the mount in progress: effects still to run, state updates queued
                    \* (and, while it is followed effect by effect, the item found)

vars == <<login, documents, currentDocument, stored, calls, clock, lastCall, mount>>

\* the messages of the errors the provider throws
NotAuthenticated == "User not authenticated or wallet not connected"
DocumentNotFound == "Document not found"
AlreadySigned == "You have already signed this document"
NotARequiredSigner == "You are not a required signer for this document"
SigningFailed == "Signature failed"
PdfNotAFile == "PDF content must be a File object"
InvalidPdf == "Invalid PDF file"
JsonSyntaxError == "SyntaxError"
NoError == ""

Settled(op, error, value) == [op |-> op, error |-> error, value |-> value]

(***************************************************************************)
(* Persistence: the save effect and the load effect.                       *)
(***************************************************************************)
\* what JSON.parse reads back from JSON.stringify of a structured value: a
\* property whose value is undefined is left out, an undefined array element
\* is written as null
RECURSIVE JSONRoundTrip(_)
JSONRoundTrip(v) ==
  IF v.t = "array"
  THEN JArray([i \in 1..Len(v.items) |->
                 IF v.items[i] = JUndefined THEN JNull ELSE JSONRoundTrip(v.items[i])])
  ELSE IF v.t = "object"
  THEN LET kept == SelectSeq(v.kv, LAMBDA p : p.v # JUndefined)
       IN JObject([i \in 1..Len(kept) |-> Prop(kept[i].k, JSONRoundTrip(kept[i].v))])
  ELSE v

\* JSON.stringify of one document: a Date becomes its ISO string
SerializeDocument(d) ==
  [d EXCEPT !.content.data = IF d.content.type = "json" THEN JSONRoundTrip(@) ELSE @,
            !.createdAt = toISOString(@),
            !.updatedAt = toISOString(@),
            !.signatures = [i \in 1..Len(@) |-> [@[i] EXCEPT !.signedAt = toISOString(@)]]]

\* the save effect: localStorage.setItem('via_documents', JSON.stringify(documents))
SaveDocuments(docs) == [i \in 1..Len(docs) |-> SerializeDocument(docs[i])]

\* ReviveDocument, were it to start each document with no signatures
ReviveDocument_NoSignatures(doc) ==
  [doc EXCEPT !.createdAt = NewDate(@),
              !.updatedAt = NewDate(@),
              !.signatures = <<>>]

\* the load effect on one parsed document: date strings back to Dates
ReviveDocument(doc) ==
  [doc EXCEPT !.createdAt = NewDate(@),
              !.updatedAt = NewDate(@),
              !.signatures = [i \in 1..Len(@) |->
                                [@[i] EXCEPT !.signedAt = NewDate(@),
                                             !.verifiedAt = IF @ # Undefined
                                                            THEN NewDate(@)
                                                            ELSE Undefined]]]

\* the load effect: the collection read from the stored item
LoadDocuments(item) == [i \in 1..Len(item) |-> ReviveDocument(item[i])]

(***************************************************************************)
(* Documents.                                                              *)
(***************************************************************************)
\* getDocument: the document with this id, or null
getDocument(docs, id) ==
  IF \E i \in 1..Len(docs) : docs[i].id = id
  THEN docs[CHOOSE i \in 1..Len(docs) :
              docs[i].id = id /\ \A j \in 1..(i - 1) : docs[j].id # id]
  ELSE Null

\* NewDocument, were a document to start as a draft
NewDocument_Draft(id, documentContent, currentUser, now, requiredSigners) ==
  [id |-> id,
   content |-> documentContent,
   createdBy |-> currentUser,
   createdAt |-> now,
   updatedAt |-> now,
   status |-> "draft",
   requiredSigners |-> [i \in 1..Len(requiredSigners) |->
                          [userId |-> requiredSigners[i],
                           username |-> requiredSigners[i],
                           required |-> TRUE,
                           hasSigned |-> FALSE]],
   signatures |-> <<>>]

\* the document createDocument builds
NewDocument(id, documentContent, currentUser, now, requiredSigners) ==
  [id |-> id,
   content |-> documentContent,
   createdBy |-> currentUser,
   createdAt |-> now,
   updatedAt |-> now,
   status |-> "pending",
   requiredSigners |-> [i \in 1..Len(requiredSigners) |->
                          [userId |-> requiredSigners[i],
                           username |-> requiredSigners[i],
                           required |-> TRUE,
                           hasSigned |-> FALSE]],
   signatures |-> <<>>]

\* the content createDocument derives from its parameters: ok, or the error thrown
ProcessContent(params) ==
  LET data == params.contentData IN
  CASE params.contentType = "text"
         -> [error |-> NoError, type |-> "text", data |-> data.value]
    [] params.contentType = "json"
         -> IF data.kind = "string"
            THEN IF JSONParse(data.value).ok
                 THEN [error |-> NoError, type |-> "json", data |-> JSONParse(data.value).value]
                 ELSE [error |-> JsonSyntaxError, type |-> "json", data |-> JNull]
            ELSE [error |-> NoError, type |-> "json", data |-> data.value]
    [] params.contentType = "pdf"
         -> IF data.kind # "File"
            THEN [error |-> PdfNotAFile, type |-> "pdf", data |-> JNull]
            ELSE IF ~validatePDF(data)
            THEN [error |-> InvalidPdf, type |-> "pdf", data |-> JNull]
            ELSE [error |-> NoError, type |-> "pdf", data |-> readPDFFile(data)]

\* signDocumentDirect: the test of isRequiredSigner on one entry
isRequiredSignerDirect(s, currentUser) == s.userId = currentUser.userId

\* signDocument: the test of isRequiredSigner on one entry
isRequiredSigner(s, currentUser) ==
  s.userId = currentUser.userId \/ s.username = currentUser.email

\* the updaters of both sign paths: hasSignedNow of one entry
hasSignedNow(s, currentUser) ==
  \/ s.userId = currentUser.userId
  \/ s.userId = currentUser.email
  \/ s.username = currentUser.email

\* verifyDocument: the test of hasSignature on one record, for one entry
hasSignature(sig, signer) ==
  \/ sig.signer.userId = signer.userId
  \/ sig.signer.email = signer.userId
  \/ sig.signer.userId = signer.username

\* the signature record both sign paths build
DocumentSignature(currentUser, signature, now, doc) ==
  [signer |-> currentUser,
   signature |-> signature,
   signedAt |-> now,
   documentHash |-> doc.content.hash,
   verified |-> FALSE,
   verifiedAt |-> Undefined]

\* signDocumentUpdate, were hasSignedNow to compare user ids only
signDocumentUpdate_UserIdOnly(prev, documentId, docSignature, currentUser, now) ==
  [i \in 1..Len(prev) |->
     LET d == prev[i] IN
     IF d.id # documentId THEN d
     ELSE LET newSignatures == Append(d.signatures, docSignature)
              newRequiredSigners ==
                [j \in 1..Len(d.requiredSigners) |->
                   LET s == d.requiredSigners[j]
                       signedNow == s.userId = currentUser.userId
                   IN IF signedNow THEN [s EXCEPT !.hasSigned = TRUE] ELSE s]
              allSigned == \A j \in 1..Len(newRequiredSigners) : newRequiredSigners[j].hasSigned
              newStatus == IF allSigned THEN "complete"
                           ELSE IF Len(newSignatures) > 0 THEN "partial"
                           ELSE d.status
          IN [d EXCEPT !.signatures = newSignatures,
                       !.requiredSigners = newRequiredSigners,
                       !.status = newStatus,
                       !.updatedAt = now]]

\* signDocumentUpdate, were allSigned read from the flags before the update
signDocumentUpdate_StaleFlags(prev, documentId, docSignature, currentUser, now) ==
  [i \in 1..Len(prev) |->
     LET d == prev[i] IN
     IF d.id # documentId THEN d
     ELSE LET newSignatures == Append(d.signatures, docSignature)
              newRequiredSigners ==
                [j \in 1..Len(d.requiredSigners) |->
                   LET s == d.requiredSigners[j]
                       signedNow == \/ s.userId = currentUser.userId
                                       \/ s.userId = currentUser.email
                                       \/ s.username = currentUser.email
                   IN IF signedNow THEN [s EXCEPT !.hasSigned = TRUE] ELSE s]
              allSigned == \A j \in 1..Len(d.requiredSigners) : d.requiredSigners[j].hasSigned
              newStatus == IF allSigned THEN "complete"
                           ELSE IF Len(newSignatures) > 0 THEN "partial"
                           ELSE d.status
          IN [d EXCEPT !.signatures = newSignatures,
                       !.requiredSigners = newRequiredSigners,
                       !.status = newStatus,
                       !.updatedAt = now]]

\* the updater of signDocument, were the status to stay as it is until every
\* required signer has signed
signDocumentUpdate_KeepsStatus(prev, documentId, docSignature, currentUser, now) ==
  [i \in 1..Len(prev) |->
     LET d == prev[i] IN
     IF d.id # documentId THEN d
     ELSE LET newSignatures == Append(d.signatures, docSignature)
              newRequiredSigners ==
                [j \in 1..Len(d.requiredSigners) |->
                   LET s == d.requiredSigners[j]
                   IN IF hasSignedNow(s, currentUser) THEN [s EXCEPT !.hasSigned = TRUE] ELSE s]
              allSigned == \A j \in 1..Len(newRequiredSigners) : newRequiredSigners[j].hasSigned
              newStatus == IF allSigned THEN "complete" ELSE d.status
          IN [d EXCEPT !.signatures = newSignatures,
                       !.requiredSigners = newRequiredSigners,
                       !.status = newStatus,
                       !.updatedAt = now]]

\* signDocumentUpdate, were the map to lack the test of the document's id
signDocumentUpdate_EveryDocument(prev, documentId, docSignature, currentUser, now) ==
  [i \in 1..Len(prev) |->
     LET d == prev[i]
         newSignatures == Append(d.signatures, docSignature)
         newRequiredSigners ==
           [j \in 1..Len(d.requiredSigners) |->
              LET s == d.requiredSigners[j]
                  signedNow == \/ s.userId = currentUser.userId
                                  \/ s.userId = currentUser.email
                                  \/ s.username = currentUser.email
              IN IF signedNow THEN [s EXCEPT !.hasSigned = TRUE] ELSE s]
         allSigned == \A j \in 1..Len(newRequiredSigners) : newRequiredSigners[j].hasSigned
         newStatus == IF allSigned THEN "complete"
                      ELSE IF Len(newSignatures) > 0 THEN "partial"
                      ELSE d.status
     IN [d EXCEPT !.signatures = newSignatures,
                  !.requiredSigners = newRequiredSigners,
                  !.status = newStatus,
                  !.updatedAt = now]]

\* the state updater of signDocument: prev.map(d => ...)
signDocumentUpdate(prev, documentId, docSignature, currentUser, now) ==
  [i \in 1..Len(prev) |->
     LET d == prev[i] IN
     IF d.id # documentId THEN d
     ELSE LET newSignatures == Append(d.signatures, docSignature)
              newRequiredSigners ==
                [j \in 1..Len(d.requiredSigners) |->
                   LET s == d.requiredSigners[j]
                   IN IF hasSignedNow(s, currentUser) THEN [s EXCEPT !.hasSigned = TRUE] ELSE s]
              allSigned == \A j \in 1..Len(newRequiredSigners) : newRequiredSigners[j].hasSigned
              newStatus == IF allSigned THEN "complete"
                           ELSE IF Len(newSignatures) > 0 THEN "partial"
                           ELSE d.status
          IN [d EXCEPT !.signatures = newSignatures,
                       !.requiredSigners = newRequiredSigners,
                       !.status = newStatus,
                       !.updatedAt = now]]

\* the state updater of signDocumentDirect: the same text as signDocument's
signDocumentDirectUpdate(prev, doc, docSignature, currentUser, now) ==
  [i \in 1..Len(prev) |->
     LET d == prev[i] IN
     IF d.id # doc.id THEN d
     ELSE LET newSignatures == Append(d.signatures, docSignature)
              newRequiredSigners ==
                [j \in 1..Len(d.requiredSigners) |->
                   LET s == d.requiredSigners[j]
                   IN IF hasSignedNow(s, currentUser) THEN [s EXCEPT !.hasSigned = TRUE] ELSE s]
              allSigned == \A j \in 1..Len(newRequiredSigners) : newRequiredSigners[j].hasSigned
              newStatus == IF allSigned THEN "complete"
                           ELSE IF Len(newSignatures) > 0 THEN "partial"
                           ELSE d.status
          IN [d EXCEPT !.signatures = newSignatures,
                       !.requiredSigners = newRequiredSigners,
                       !.status = newStatus,
                       !.updatedAt = now]]

\* the checks of signDocumentDirect before it asks the wallet: the error
\* thrown, or NoError
signDocumentDirectCheck(currentUser, doc) ==
  IF currentUser = Null THEN NotAuthenticated
  ELSE IF \E i \in 1..Len(doc.signatures) : doc.signatures[i].signer.userId = currentUser.userId
  THEN AlreadySigned
  ELSE IF ~(\E j \in 1..Len(doc.requiredSigners) :
              isRequiredSignerDirect(doc.requiredSigners[j], currentUser))
  THEN NotARequiredSigner
  ELSE NoError

\* signDocumentCheck, were it to lack the test of requiredSigners
signDocumentCheck_AnySigner(currentUser, doc) ==
  IF currentUser = Null THEN NotAuthenticated
  ELSE IF doc = Null THEN DocumentNotFound
  ELSE IF \E i \in 1..Len(doc.signatures) : doc.signatures[i].signer.userId = currentUser.userId
  THEN AlreadySigned
  ELSE NoError

\* signDocumentCheck, were alreadySigned to compare the signer's e-mail with
\* the user's id
signDocumentCheck_WrongField(currentUser, doc) ==
  IF currentUser = Null THEN NotAuthenticated
  ELSE IF doc = Null THEN DocumentNotFound
  ELSE IF \E i \in 1..Len(doc.signatures) : doc.signatures[i].signer.email = currentUser.userId
  THEN AlreadySigned
  ELSE IF ~(\E j \in 1..Len(doc.requiredSigners) :
              \/ doc.requiredSigners[j].userId = currentUser.userId
              \/ doc.requiredSigners[j].username = currentUser.email)
  THEN NotARequiredSigner
  ELSE NoError

\* the checks of signDocument before it asks the wallet
signDocumentCheck(currentUser, doc) ==
  IF currentUser = Null THEN NotAuthenticated
  ELSE IF doc = Null THEN DocumentNotFound
  ELSE IF \E i \in 1..Len(doc.signatures) : doc.signatures[i].signer.userId = currentUser.userId
  THEN AlreadySigned
  ELSE IF ~(\E j \in 1..Len(doc.requiredSigners) :
              isRequiredSigner(doc.requiredSigners[j], currentUser))
  THEN NotARequiredSigner
  ELSE NoError

\* a sign request waiting for the wallet: what the call holds across its await
PendingCall(kind, doc, currentUser) ==
  [kind |-> kind, doc |-> doc, currentUser |-> currentUser,
   message |-> createDocumentMessage(doc)]

\* signMessage (TransactionProvider): the wallet signs with the session's
\* account, or the request fails and signMessage returns null
WalletResponses(call) ==
  { PersonalSign(call.message, call.currentUser.walletAddress), Null }

(***************************************************************************)
(* Verification.                                                           *)
(***************************************************************************)
\* a signature string ethers can parse (65 bytes, hex)
WellFormed(signature) == signature # Null /\ signature.digest # "<malformed>"

\* verifySignature, were recoverAddress to answer with some address where it
\* throws, so that the catch is never entered
verifySignature_NoCatch(signature, doc) ==
  LET message == createDocumentMessage(doc)
      messageHash == hashMessage(message)
      recoveredAddress == recoverAddress(messageHash, signature.signature)
      addressMatch == toLowerCase(recoveredAddress)
                        = toLowerCase(signature.signer.walletAddress)
      hashMatch == signature.documentHash = doc.content.hash
  IN [valid |-> addressMatch /\ hashMatch,
      recoveredAddress |-> recoveredAddress,
      expectedAddress |-> signature.signer.walletAddress,
      addressMatch |-> addressMatch,
      hashMatch |-> hashMatch,
      error |-> Undefined]

\* verifySignature
verifySignature(signature, doc) ==
  IF WellFormed(signature.signature)
  THEN LET message == createDocumentMessage(doc)
           messageHash == hashMessage(message)
           recoveredAddress == recoverAddress(messageHash, signature.signature)
           addressMatch == toLowerCase(recoveredAddress)
                             = toLowerCase(signature.signer.walletAddress)
           hashMatch == signature.documentHash = doc.content.hash
       IN [valid |-> addressMatch /\ hashMatch,
           recoveredAddress |-> recoveredAddress,
           expectedAddress |-> signature.signer.walletAddress,
           addressMatch |-> addressMatch,
           hashMatch |-> hashMatch,
           error |-> Undefined]
  ELSE [valid |-> FALSE,
        recoveredAddress |-> "",
        expectedAddress |-> signature.signer.walletAddress,
        addressMatch |-> FALSE,
        hashMatch |-> FALSE,
        error |-> "invalid signature"]

\* the errors verifyDocument collects in its loop over the first n signatures
RECURSIVE SignatureErrors(_, _)
SignatureErrors(doc, n) ==
  IF n = 0 THEN <<>>
  ELSE LET sig == doc.signatures[n]
           verification == verifySignature(sig, doc)
       IN IF verification.valid THEN SignatureErrors(doc, n - 1)
          ELSE Append(SignatureErrors(doc, n - 1),
                      "Invalid signature from " \o sig.signer.username \o ": "
                        \o (IF verification.error # Undefined THEN verification.error
                            ELSE "Signature verification failed"))

\* contentHashValid, were the stored hash compared with the hash the records
\* hold, as verifySignature compares them
contentHashValid_StoredHash(doc) ==
  \A i \in 1..Len(doc.signatures) : doc.signatures[i].documentHash = doc.content.hash

\* verifyDocument: contentHashValid
contentHashValid(doc) == hashDocumentContent(doc.content) = doc.content.hash

\* signaturesValid, were a record flagged as verified not verified again
signaturesValid_TrustsVerified(doc) ==
  \A i \in 1..Len(doc.signatures) :
    doc.signatures[i].verified \/ verifySignature(doc.signatures[i], doc).valid

\* verifyDocument: signaturesValid after the loop over the signatures
signaturesValid(doc) ==
  \A i \in 1..Len(doc.signatures) : verifySignature(doc.signatures[i], doc).valid

\* allSignersPresent, were it read from the hasSigned flags
allSignersPresent_CachedFlags(doc) ==
  \A j \in 1..Len(doc.requiredSigners) : doc.requiredSigners[j].hasSigned

\* verifyDocument: allSignersPresent
allSignersPresent(doc) ==
  \A j \in 1..Len(doc.requiredSigners) :
    LET signer == doc.requiredSigners[j] IN
    \E i \in 1..Len(doc.signatures) : hasSignature(doc.signatures[i], signer)

\* verifyDocument, on the document getDocument found
verifyDocument(doc, now) ==
  LET errors == SignatureErrors(doc, Len(doc.signatures))
                  \o (IF allSignersPresent(doc) THEN <<>>
                      ELSE <<"Not all required signers have signed">>)
  IN [valid |-> signaturesValid(doc) /\ contentHashValid(doc) /\ allSignersPresent(doc),
      signaturesValid |-> signaturesValid(doc),
      contentHashValid |-> contentHashValid(doc),
      allSignersPresent |-> allSignersPresent(doc),
      errors |-> errors,
      verifiedAt |-> now]

\* getSignatureStatus, on the document getDocument found
getSignatureStatus(doc) ==
  LET total == Len(doc.requiredSigners)
      signed == Len(doc.signatures)
      missing == SelectSeq(doc.requiredSigners, LAMBDA s : ~s.hasSigned)
  IN [total |-> total,
      signed |-> signed,
      percentage |-> IF total > 0 THEN (200 * signed + total) \div (2 * total) ELSE 0,
      pending |-> [i \in 1..Len(missing) |-> missing[i].userId],
      complete |-> signed = total,
      missingSigners |-> missing]

(***************************************************************************)
(* The operations.                                                         *)
(***************************************************************************)
\* the provider once its mount is over: no effect left to run, no state
\* update queued
Mounted == [effects |-> <<>>, updates |-> <<>>]

Init ==
  /\ login \in Logins
  /\ documents = <<>>
  /\ currentDocument = Null
  /\ stored = SaveDocuments(<<>>)
  /\ calls = <<>>
  /\ clock = 0
  /\ lastCall = Settled("mount", NoError, Null)
  /\ mount = Mounted

\* createDocument(params), up to its return, its throw, or the await of the
\* wallet in signDocumentDirect
createDocument(params) ==
  LET currentUser == getCurrentUser(login)
      processed == ProcessContent(params)
      documentContent == [type |-> processed.type, data |-> processed.data,
                          hash |-> hashDocumentContent(processed)]
      doc == NewDocument("doc_" \o NumberToString(clock), documentContent, currentUser,
                         clock, params.requiredSigners)
      added == <<doc>> \o documents
  IN
  /\ UNCHANGED mount
  /\ params.signImmediately => Len(calls) < MaxCalls
  /\ UNCHANGED <<login, currentDocument>>
  /\ IF currentUser = Null
     THEN /\ lastCall' = Settled("createDocument", NotAuthenticated, Null)
          /\ UNCHANGED <<documents, stored, calls, clock>>
     ELSE IF processed.error # NoError
     THEN /\ lastCall' = Settled("createDocument", processed.error, Null)
          /\ UNCHANGED <<documents, stored, calls, clock>>
     ELSE /\ documents' = added
          /\ stored' = SaveDocuments(added)
          /\ clock' = clock + 1
          /\ IF ~params.signImmediately
             THEN /\ lastCall' = Settled("createDocument", NoError, Null)
                  /\ UNCHANGED calls
             ELSE IF signDocumentDirectCheck(currentUser, doc) # NoError
             THEN /\ lastCall' = Settled("createDocument",
                                         signDocumentDirectCheck(currentUser, doc), Null)
                  /\ UNCHANGED calls
             ELSE /\ calls' = Append(calls, PendingCall("signDocumentDirect", doc, currentUser))
                  /\ UNCHANGED lastCall

\* signDocumentDirect after its await: the wallet answered call i
signDocumentDirectResume(i, signature) ==
  LET call == calls[i]
      docSignature == DocumentSignature(call.currentUser, signature, clock, call.doc)
      updated == signDocumentDirectUpdate(documents, call.doc, docSignature,
                                          call.currentUser, clock)
  IN
  /\ UNCHANGED mount
  /\ call.kind = "signDocumentDirect"
  /\ calls' = RemoveAt(calls, i)
  /\ UNCHANGED <<login, currentDocument>>
  /\ IF signature = Null
     THEN /\ lastCall' = Settled("createDocument", SigningFailed, Null)
          /\ UNCHANGED <<documents, stored, clock>>
     ELSE /\ documents' = updated
          /\ stored' = SaveDocuments(updated)
          /\ clock' = clock + 1
          /\ lastCall' = Settled("createDocument", NoError, Null)

\* signDocument(documentId), up to its throw or the await of the wallet
signDocument(documentId) ==
  LET currentUser == getCurrentUser(login)
      doc == getDocument(documents, documentId)
      error == signDocumentCheck(currentUser, doc)
  IN
  /\ UNCHANGED mount
  /\ UNCHANGED <<login, documents, currentDocument, stored, clock>>
  /\ IF error # NoError
     THEN /\ lastCall' = Settled("signDocument", error, Null)
          /\ UNCHANGED calls
     ELSE /\ Len(calls) < MaxCalls
          /\ calls' = Append(calls, PendingCall("signDocument", doc, currentUser))
          /\ UNCHANGED lastCall

\* signDocumentResume, were it to lack the test of a null signature
signDocumentResume_NoNullTest(i, signature) ==
  LET call == calls[i]
      docSignature == DocumentSignature(call.currentUser, signature, clock, call.doc)
      updated == signDocumentUpdate(documents, call.doc.id, docSignature,
                                    call.currentUser, clock)
  IN
  /\ UNCHANGED mount
  /\ call.kind = "signDocument"
  /\ calls' = RemoveAt(calls, i)
  /\ UNCHANGED <<login, currentDocument>>
  /\ documents' = updated
  /\ stored' = SaveDocuments(updated)
  /\ clock' = clock + 1
  /\ lastCall' = Settled("signDocument", NoError, Null)

\* signDocument after its await: the wallet answered call i
signDocumentResume(i, signature) ==
  LET call == calls[i]
      docSignature == DocumentSignature(call.currentUser, signature, clock, call.doc)
      updated == signDocumentUpdate(documents, call.doc.id, docSignature,
                                    call.currentUser, clock)
  IN
  /\ UNCHANGED mount
  /\ call.kind = "signDocument"
  /\ calls' = RemoveAt(calls, i)
  /\ UNCHANGED <<login, currentDocument>>
  /\ IF signature = Null
     THEN /\ lastCall' = Settled("signDocument", SigningFailed, Null)
          /\ UNCHANGED <<documents, stored, clock>>
     ELSE /\ documents' = updated
          /\ stored' = SaveDocuments(updated)
          /\ clock' = clock + 1
          /\ lastCall' = Settled("signDocument", NoError, Null)

\* verifyDocument(documentId); DocumentViewer keeps the result
verifyDocumentCall(documentId) ==
  LET doc == getDocument(documents, documentId) IN
  /\ UNCHANGED mount
  /\ UNCHANGED <<login, documents, currentDocument, stored, calls, clock>>
  /\ IF doc = Null
     THEN lastCall' = Settled("verifyDocument", DocumentNotFound, Null)
     ELSE lastCall' = Settled("verifyDocument", NoError, verifyDocument(doc, clock))

\* selectDocument(documentId)
selectDocument(documentId) ==
  /\ UNCHANGED mount
  /\ currentDocument' = getDocument(documents, documentId)
  /\ UNCHANGED <<login, documents, stored, calls, clock, lastCall>>

\* The page is loaded again, after a login, a logout or a reload: the calls
\* waiting for the wallet are gone, the provider mounts with an empty
\* collection, the load effect reads the stored item and the save effect
\* writes the collection back (the mount of a production build, taken as one
\* step up to its last save effect)
Remount(l) ==
  /\ UNCHANGED mount
  /\ login' = l
  /\ documents' = LoadDocuments(stored)
  /\ stored' = SaveDocuments(LoadDocuments(stored))
  /\ currentDocument' = Null
  /\ calls' = <<>>
  /\ lastCall' = Settled("mount", NoError, Null)
  /\ UNCHANGED clock

\* the ids a caller can pass: those of the collection and one of no document
DocumentIds == { documents[i].id : i \in 1..Len(documents) } \cup {"doc_none"}

Next ==
  \/ \E params \in CreateDocumentParams :
       Len(documents) < MaxDocs /\ createDocument(params)
  \/ \E i \in 1..Len(calls) : \E signature \in WalletResponses(calls[i]) :
       signDocumentDirectResume(i, signature)
  \/ \E documentId \in DocumentIds : signDocument(documentId)
  \/ \E i \in 1..Len(calls) : \E signature \in WalletResponses(calls[i]) :
       signDocumentResume(i, signature)
  \/ \E documentId \in DocumentIds : verifyDocumentCall(documentId)
  \/ \E documentId \in DocumentIds : selectDocument(documentId)
  \/ \E l \in Logins \cup {Null} : Remount(l)

Spec == Init /\ [][Next]_vars

\* Several documents in one collection: the same operations, with fewer
\* inputs of createDocument
FrameParams ==
  { p \in CreateDocumentParams :
      /\ p.contentType = "text"
      /\ p.contentData = StringData("hello")
      /\ p.requiredSigners = <<"u-alice", "u-bob">> }

NextFrame ==
  \/ \E params \in FrameParams :
       Len(documents) < MaxFrameDocs /\ createDocument(params)
  \/ \E i \in 1..Len(calls) : \E signature \in WalletResponses(calls[i]) :
       signDocumentDirectResume(i, signature)
  \/ \E documentId \in DocumentIds : signDocument(documentId)
  \/ \E i \in 1..Len(calls) : \E signature \in WalletResponses(calls[i]) :
       signDocumentResume(i, signature)
  \/ \E l \in Logins \cup {Null} : Remount(l)

SpecFrame == Init /\ [][NextFrame]_vars

(***************************************************************************)
(* Notions the properties use.                                             *)
(***************************************************************************)
\* the identity-match policy of the specification (section 4.4): equal
\* subject id, or equal e-mail ignoring letter case, or the identifier is the
\* identity's display name
IdentityMatch(identifier, user) ==
  \/ identifier = user.userId
  \/ user.email # Undefined /\ toLowerCase(identifier) = toLowerCase(user.email)
  \/ identifier = user.username

\* the match the provider applies when it appends a signature: the
\* identifier is the signer's user id or the signer's e-mail, as written
ExactMatch(identifier, user) ==
  \/ identifier = user.userId
  \/ identifier = user.email

IsPrefix(a, b) == Len(a) <= Len(b) /\ \A i \in 1..Len(a) : a[i] = b[i]

DocIndexes == 1..Len(documents)

\* the users whose signature a document holds
SignersOf(d) == { u \in Users : \E i \in 1..Len(d.signatures) :
                                  d.signatures[i].signer.userId = u.userId }

\* content.data values an editor of the stored item can put in place of the
\* data of a document of each type
TamperedData(type) ==
  CASE type = "text" -> {"hello", "hellp", "Hello"}
    [] type = "json" ->
         { JObject(<<Prop(<<"b">>, JNumber(1)), Prop(<<"a">>, JNumber(2))>>),
           JObject(<<Prop(<<"a">>, JNumber(2)), Prop(<<"b">>, JNumber(1))>>),
           JObject(<<Prop(<<"a">>, JNumber(2)), Prop(<<"b">>, JNumber(2))>>),
           JObject(<<Prop(<<"a", "\"", ":", "2", ",", "\"", "b">>, JNumber(1))>>) }
    [] type = "pdf" ->
         { [base64 |-> "JVBERi0x", filename |-> "contract.pdf",
            mimeType |-> "application/pdf", size |-> 3],
           [base64 |-> "JVBERi0x", filename |-> "other.pdf",
            mimeType |-> "application/pdf", size |-> 3],
           [base64 |-> "JVBERi0y", filename |-> "contract.pdf",
            mimeType |-> "application/pdf", size |-> 3] }

\* document d with its content.data replaced, hash and signatures as stored
WithData(d, data) == [d EXCEPT !.content.data = data]

\* the edits of d's data that change the data
Edits(d) == TamperedData(d.content.type) \ {d.content.data}

\* the edits of d's data that change its canonical form
CanonicalEdits(d) ==
  { x \in Edits(d) : CanonicalForm(WithData(d, x).content) # CanonicalForm(d.content) }

(***************************************************************************)
(* Verification of what the load effect reads. The load effect takes the   *)
(* stored item as it finds it: the documents the provider wrote, or those  *)
(* documents with a field changed in the store.                            *)
(***************************************************************************)
\* signature bytes ethers cannot parse
MalformedSignature == [key |-> "", digest |-> "<malformed>"]

\* document doc after `user` signed it at `now` through signDocument
SignedBy(doc, user, now) ==
  signDocumentUpdate(<<doc>>, doc.id,
                     DocumentSignature(user,
                                       PersonalSign(createDocumentMessage(doc),
                                                    user.walletAddress),
                                       now, doc),
                     user, now)[1]

Alice == CHOOSE u \in Users : u.userId = "u-alice"
Bob == CHOOSE u \in Users : u.userId = "u-bob"

\* documents as the provider writes them: created by alice from a string or
\* a file, unsigned, signed by alice, signed by alice and bob
WrittenDocuments ==
  LET params == { p \in CreateDocumentParams :
                    /\ p.contentData.kind # "object"
                    /\ ProcessContent(p).error = NoError
                    /\ p.requiredSigners \in {<<"u-alice", "u-bob">>,
                                              <<"u-alice", "bob@via.io">>}
                    /\ p.signImmediately }
      fresh == { NewDocument("doc_0",
                             [type |-> ProcessContent(p).type,
                              data |-> ProcessContent(p).data,
                              hash |-> hashDocumentContent(ProcessContent(p))],
                             Alice, 0, p.requiredSigners) : p \in params }
      one == { SignedBy(d, Alice, 1) : d \in fresh }
      two == { SignedBy(d, Bob, 2) : d \in one }
  IN fresh \cup one \cup two

\* document B with the record appended to its signatures
WithRecord(B, record) == [B EXCEPT !.signatures = Append(@, record)]

\* a signature record that names `named` as its signer and holds the wallet
\* address and the signature of `forger`
ForgedRecord(d, named, forger, now) ==
  DocumentSignature([named EXCEPT !.walletAddress = forger.walletAddress],
                    PersonalSign(createDocumentMessage(d), forger.walletAddress),
                    now, d)

\* a written document with one field changed in the store
StoreEdits(d) ==
  LET sigs == 1..Len(d.signatures) IN
  { WithData(d, x) : x \in Edits(d) }
    \cup { [d EXCEPT !.content.data = x,
                     !.content.hash = hashDocumentContent([d.content EXCEPT !.data = x])] :
             x \in CanonicalEdits(d) }
    \cup { [d EXCEPT !.signatures[i].signature = MalformedSignature] : i \in sigs }
    \cup { [d EXCEPT !.signatures[i].signature = d.signatures[j].signature] :
             i \in sigs, j \in sigs \ {1} }
    \cup { [d EXCEPT !.signatures[i].documentHash = keccak256("other")] : i \in sigs }
    \cup { [d EXCEPT !.signatures = RemoveAt(@, i)] : i \in sigs }
    \cup { [d EXCEPT !.status = st] : st \in {"pending", "partial", "complete", "cancelled"} }
    \cup { [d EXCEPT !.requiredSigners[j].hasSigned = ~@] : j \in 1..Len(d.requiredSigners) }
    \cup { [d EXCEPT !.signatures[i].verified = TRUE] : i \in sigs }
    \cup { WithRecord(d, ForgedRecord(d, Bob, Alice, 2)) }

\* the documents the load effect can read
LoadedDocuments == WrittenDocuments \cup UNION { StoreEdits(d) : d \in WrittenDocuments }

\* the provider after its mount, with one such document read from the store
InitVerify ==
  /\ login \in Logins
  /\ documents \in { <<d>> : d \in LoadedDocuments }
  /\ currentDocument = Null
  /\ stored = SaveDocuments(documents)
  /\ calls = <<>>
  /\ clock = 3
  /\ lastCall = Settled("mount", NoError, Null)
  /\ mount = Mounted

NextVerify ==
  \/ \E documentId \in DocumentIds : verifyDocumentCall(documentId)
  \/ \E documentId \in DocumentIds : selectDocument(documentId)
  \/ \E l \in Logins \cup {Null} : Remount(l)

SpecVerify == InitVerify /\ [][NextVerify]_vars

(***************************************************************************)
(* Structured content: createDocument called with an object as             *)
(* contentData.                                                            *)
(***************************************************************************)
\* documents created in one run, with the inputs of CanonParams
MaxCanonDocs == 1

\* two distinct keys, in the order in which they are written
KeyPairs(keys) == { k \in keys \X keys : k[1] # k[2] }

\* objects of two properties a and b, written in either order
InnerObjects ==
  { JObject(<<Prop(k[1], JNumber(x)), Prop(k[2], JNumber(y))>>) :
      k \in KeyPairs({<<"a">>, <<"b">>}), x \in {1, 2}, y \in {1, 2} }

\* objects of at most two properties, over numbers, strings and null
FlatObjects ==
  { JObject(<<>>) }
    \cup { JObject(<<Prop(k, v)>>) :
             k \in {<<"a">>, <<"a", "b">>}, v \in {JNumber(1), JString(<<"b">>), JNull} }
    \cup InnerObjects

\* objects that hold an object and an array with an object in it
NestedObjects ==
  { JObject(<<Prop(k[1], x), Prop(k[2], JArray(<<y, JNumber(1)>>))>>) :
      k \in KeyPairs({<<"c">>, <<"a", "b">>}),
      x \in {JObject(<<Prop(<<"a">>, JNumber(1)), Prop(<<"b">>, JNumber(2))>>),
             JObject(<<Prop(<<"b">>, JNumber(2)), Prop(<<"a">>, JNumber(1))>>)},
      y \in InnerObjects }
    \cup { JObject(<<Prop(k[2], JArray(<<y, JNumber(1)>>)), Prop(k[1], x)>>) :
      k \in KeyPairs({<<"c">>, <<"a", "b">>}),
      x \in {JObject(<<Prop(<<"a">>, JNumber(1)), Prop(<<"b">>, JNumber(2))>>)},
      y \in InnerObjects }

\* objects with a key that holds a quote, a colon and a comma, or a backslash
QuotedKeyObjects ==
  { JObject(<<Prop(<<"a", "\"", ":", "1", ",", "\"", "b">>, JNumber(2))>>),
    JObject(<<Prop(<<"a", "\\">>, JNumber(1))>>) }

CanonValues == FlatObjects \cup NestedObjects \cup QuotedKeyObjects

CanonParams ==
  { [contentType |-> "json", contentData |-> ObjectData(v),
     requiredSigners |-> <<"u-alice">>, signImmediately |-> FALSE] : v \in CanonValues }

NextCanon ==
  \/ \E params \in CanonParams :
       Len(documents) < MaxCanonDocs /\ createDocument(params)
  \/ \E documentId \in DocumentIds : verifyDocumentCall(documentId)
  \/ \E l \in Logins \cup {Null} : Remount(l)

SpecCanon == Init /\ [][NextCanon]_vars

(***************************************************************************)
(* C1: whatever the interleaving of sign attempts on a document, its       *)
(* signatures never hold two records of signers with the same userId.      *)
(***************************************************************************)
C1_OneSignaturePerSigner ==
  \A n \in DocIndexes :
    \A i, j \in 1..Len(documents[n].signatures) :
      documents[n].signatures[i].signer.userId = documents[n].signatures[j].signer.userId
        => i = j

(***************************************************************************)
(* C2: a document whose n >= 1 required signers are n distinct identities  *)
(* is 'partial' with signed = k of total = n after k of them signed        *)
(* (0 < k < n), and 'complete' with signed = n of n and a valid            *)
(* verification once all n signed.                                         *)
(***************************************************************************)
\* each entry names one identity, different entries name different ones
DistinctIdentities(d) ==
  /\ \A j \in 1..Len(d.requiredSigners) :
       Cardinality({ u \in Users : IdentityMatch(d.requiredSigners[j].userId, u) }) = 1
  /\ \A j, k \in 1..Len(d.requiredSigners) :
       (\E u \in Users : /\ IdentityMatch(d.requiredSigners[j].userId, u)
                         /\ IdentityMatch(d.requiredSigners[k].userId, u)) => j = k

C2_Progress ==
  \A i \in DocIndexes :
    LET d == documents[i]
        n == Len(d.requiredSigners)
        k == Cardinality(SignersOf(d))
        st == getSignatureStatus(d)
    IN (n >= 1 /\ DistinctIdentities(d)) =>
         /\ (0 < k /\ k < n) => d.status = "partial" /\ st.signed = k /\ st.total = n
         /\ k = n => /\ d.status = "complete"
                     /\ st.signed = n /\ st.total = n
                     /\ verifyDocument(d, clock).valid

\* C2 in the states where no identity got two records (C1) and the stored
\* hash of every document is still the hash of its data (C11)
C2_ProgressWithoutDuplicates ==
  (/\ C1_OneSignaturePerSigner
   /\ \A n \in DocIndexes : contentHashValid(documents[n]))
  => C2_Progress

(***************************************************************************)
(* C3: if content.data of a signed document is changed after signing, the  *)
(* hash and the signature records left as stored, verifyDocument returns   *)
(* contentHashValid = false and valid = false.                             *)
(***************************************************************************)
\* as claimed: for every change of the data
C3_AnyEditDetected ==
  \A i \in DocIndexes :
    LET d == documents[i] IN
    Len(d.signatures) >= 1 =>
      \A x \in Edits(d) :
        LET v == verifyDocument(WithData(d, x), clock)
        IN ~v.contentHashValid /\ ~v.valid

\* as amended: for every change of the data that changes its canonical form
\* (the text, canonicalizeJSON of the JSON value, the base64 text of the PDF)
C3_CanonicalEditDetected ==
  \A i \in DocIndexes :
    LET d == documents[i] IN
    Len(d.signatures) >= 1 =>
      \A x \in CanonicalEdits(d) :
        LET v == verifyDocument(WithData(d, x), clock)
        IN ~v.contentHashValid /\ ~v.valid

\* a fully signed document, just verified as valid, that has such an edit
C3_Witness ==
  /\ lastCall.op = "verifyDocument" /\ lastCall.error = NoError
  /\ lastCall.value.valid
  /\ \E i \in DocIndexes :
       /\ documents[i].status = "complete"
       /\ verifyDocument(documents[i], clock).valid
       /\ CanonicalEdits(documents[i]) # {}

(***************************************************************************)
(* C4: if content.data of a signed document is changed after signing,      *)
(* verifySignature reports hashMatch = false and valid = false for every   *)
(* signature of the document.                                              *)
(***************************************************************************)
C4_EditBreaksHashMatch ==
  \A i \in DocIndexes :
    LET d == documents[i] IN
    \A x \in CanonicalEdits(d) :
      \A k \in 1..Len(d.signatures) :
        LET v == verifySignature(d.signatures[k], WithData(d, x))
        IN ~v.hashMatch /\ ~v.valid

(***************************************************************************)
(* C5: in every reachable state the status of a document is 'complete'     *)
(* iff every required signer has a matching signature, otherwise 'partial' *)
(* iff it has a signature, otherwise 'pending'.                            *)
(***************************************************************************)
StatusUnder(Match(_, _), d) ==
  IF \A j \in 1..Len(d.requiredSigners) :
       \E i \in 1..Len(d.signatures) :
         Match(d.requiredSigners[j].userId, d.signatures[i].signer)
  THEN "complete"
  ELSE IF Len(d.signatures) > 0 THEN "partial"
  ELSE "pending"

NoEntryMatches(requiredSigners, currentUser) ==
  \A j \in 1..Len(requiredSigners) :
    ~IdentityMatch(requiredSigners[j], currentUser)

C6_SignersAreRequired ==
  \A n \in DocIndexes :
    \A i \in 1..Len(documents[n].signatures) :
      \E j \in 1..Len(documents[n].requiredSigners) :
        IdentityMatch(documents[n].requiredSigners[j].userId,
                      documents[n].signatures[i].signer)

C6_SignRejected ==
  \A documentId \in DocumentIds :
    LET currentUser == getCurrentUser(login)
        doc == getDocument(documents, documentId)
    IN (/\ signDocument(documentId)
        /\ currentUser # Null
        /\ doc # Null
        /\ NoEntryMatches([j \in 1..Len(doc.requiredSigners) |->
                             doc.requiredSigners[j].userId], currentUser))
       => /\ lastCall' = Settled("signDocument", NotARequiredSigner, Null)
          /\ documents' = documents
          /\ stored' = stored
          /\ calls' = calls

C6_SelfSignRejected ==
  \A params \in CreateDocumentParams :
    LET currentUser == getCurrentUser(login) IN
    (/\ Len(documents') = Len(documents) + 1
     /\ params.signImmediately
     /\ NoEntryMatches(params.requiredSigners, currentUser)
     /\ createDocument(params))
    => /\ lastCall'.error = NotARequiredSigner
       /\ calls' = calls
       /\ documents'[1].signatures = <<>>
       /\ documents'[1].status = "pending"

C6_NonSignerRejected ==
  /\ []C6_SignersAreRequired
  /\ [][C6_SignRejected /\ C6_SelfSignRejected]_vars

\* a sign call of a user whom no entry of the document matches was refused
C6_Witness ==
  /\ lastCall = Settled("signDocument", NotARequiredSigner, Null)
  /\ login # Null
  /\ \E n \in DocIndexes :
       NoEntryMatches([j \in 1..Len(documents[n].requiredSigners) |->
                         documents[n].requiredSigners[j].userId],
                      getCurrentUser(login))

(***************************************************************************)
(* C7: once a sign by an identity has succeeded on a document, every later *)
(* sign call by that identity on it fails with AlreadySigned, the wallet   *)
(* is not asked and the document is unchanged.                             *)
(***************************************************************************)
HasSignatureOf(doc, currentUser) ==
  \E i \in 1..Len(doc.signatures) : doc.signatures[i].signer.userId = currentUser.userId

C7_SecondSignStep ==
  \A documentId \in DocumentIds :
    LET currentUser == getCurrentUser(login)
        doc == getDocument(documents, documentId)
    IN (/\ signDocument(documentId)
        /\ currentUser # Null
        /\ doc # Null
        /\ HasSignatureOf(doc, currentUser))
       => /\ lastCall' = Settled("signDocument", AlreadySigned, Null)
          /\ calls' = calls
          /\ documents' = documents
          /\ stored' = stored

C7_SecondSignRejected == [][C7_SecondSignStep]_vars

\* a sign call on a document the user had signed was refused
C7_Witness ==
  /\ lastCall = Settled("signDocument", AlreadySigned, Null)
  /\ login # Null
  /\ \E n \in DocIndexes : HasSignatureOf(documents[n], getCurrentUser(login))

(***************************************************************************)
(* C8: when the wallet returns null, the sign call fails with 'Signature   *)
(* failed', appends no record, and a later sign by the same identity is    *)
(* accepted as if the failed call had not happened.                        *)
(***************************************************************************)
C8_WalletFailureStep ==
  \A i \in 1..Len(calls) :
    (signDocumentResume(i, Null) \/ signDocumentDirectResume(i, Null))
    => /\ documents' = documents
       /\ stored' = stored
       /\ lastCall'.error = SigningFailed
       /\ LET doc == getDocument(documents', calls[i].doc.id) IN
          (doc # Null /\ ~HasSignatureOf(doc, calls[i].currentUser))
            => signDocumentCheck(calls[i].currentUser, doc) = NoError

C8_WalletFailure == [][C8_WalletFailureStep]_vars

\* a call failed at the wallet and the user may sign the document still
C8_Witness ==
  /\ lastCall.error = SigningFailed
  /\ login # Null
  /\ \E n \in DocIndexes :
       /\ ~HasSignatureOf(documents[n], getCurrentUser(login))
       /\ signDocumentCheck(getCurrentUser(login), documents[n]) = NoError

(***************************************************************************)
(* C9: a successful sign appends exactly one record at the end of the      *)
(* document's signatures, with the signer's identity, documentHash equal   *)
(* to content.hash and verified = false; of the document only that, the    *)
(* hasSigned flags, status and updatedAt change; other documents do not    *)
(* change.                                                                 *)
(***************************************************************************)
SameButProgress(X, Y) ==
  /\ Y.id = X.id
  /\ Y.content = X.content
  /\ Y.createdBy = X.createdBy
  /\ Y.createdAt = X.createdAt
  /\ Len(Y.requiredSigners) = Len(X.requiredSigners)
  /\ \A j \in 1..Len(X.requiredSigners) :
       /\ Y.requiredSigners[j].userId = X.requiredSigners[j].userId
       /\ Y.requiredSigners[j].username = X.requiredSigners[j].username
       /\ Y.requiredSigners[j].required = X.requiredSigners[j].required

C9_SignStep ==
  \A i \in 1..Len(calls) :
    LET call == calls[i]
        signature == PersonalSign(call.message, call.currentUser.walletAddress)
    IN (signDocumentResume(i, signature) \/ signDocumentDirectResume(i, signature))
       => /\ Len(documents') = Len(documents)
          /\ \A n \in DocIndexes :
               LET X == documents[n]
                   Y == documents'[n]
               IN IF X.id # call.doc.id THEN Y = X
                  ELSE /\ Len(Y.signatures) = Len(X.signatures) + 1
                       /\ SubSeq(Y.signatures, 1, Len(X.signatures)) = X.signatures
                       /\ Y.signatures[Len(Y.signatures)].signer = call.currentUser
                       /\ Y.signatures[Len(Y.signatures)].signer = getCurrentUser(login)
                       /\ Y.signatures[Len(Y.signatures)].signature = signature
                       /\ Y.signatures[Len(Y.signatures)].documentHash = X.content.hash
                       /\ Y.signatures[Len(Y.signatures)].verified = FALSE
                       /\ SameButProgress(X, Y)

C9_SignFrame == [][C9_SignStep]_vars

\* two documents, the second one signed after the first
C9_Witness ==
  /\ Len(documents) = 2
  /\ lastCall.error = NoError
  /\ lastCall.op \in {"signDocument", "signDocumentDirect"}
  /\ documents[1].signatures # <<>>
  /\ documents[2].signatures # <<>>
  /\ documents[2].updatedAt > documents[1].updatedAt

(***************************************************************************)
(* C10: across create, sign, verify, select, save and load the signatures  *)
(* of a document only grow: in memory and in the store, what they were     *)
(* before a step is a prefix of what they are after it.                    *)
(***************************************************************************)
C10_GrowStep ==
  /\ \A n \in DocIndexes :
       \E m \in 1..Len(documents') :
         /\ documents'[m].id = documents[n].id
         /\ IsPrefix(documents[n].signatures, documents'[m].signatures)
  /\ \A n \in 1..Len(stored) :
       \E m \in 1..Len(stored') :
         /\ stored'[m].id = stored[n].id
         /\ IsPrefix(stored[n].signatures, stored'[m].signatures)

C10_SignaturesOnlyGrow == [][C10_GrowStep]_vars

\* a document signed, loaded from the store, and signed again
C10_Witness ==
  \E n \in DocIndexes :
    /\ login # Null
    /\ Len(documents[n].signatures) = 2
    /\ documents[n].signatures[1].signer.userId # getCurrentUser(login).userId
    /\ documents[n].signatures[2].signer.userId = getCurrentUser(login).userId

(***************************************************************************)
(* C11: content.hash of every document equals the hash of the canonical    *)
(* form of its content.data, in every reachable state, and no operation    *)
(* changes the content.data or the content.hash of a document.             *)
(***************************************************************************)
C11_HashOfData ==
  \A n \in DocIndexes :
    documents[n].content.hash = keccak256(CanonicalForm(documents[n].content))

C11_ContentStep ==
  \A n \in DocIndexes :
    \E m \in 1..Len(documents') :
      /\ documents'[m].id = documents[n].id
      /\ documents'[m].content = documents[n].content

C11_ContentHashKept == []C11_HashOfData /\ [][C11_ContentStep]_vars

(***************************************************************************)
(* C12: the message createDocumentMessage builds for a document is the     *)
(* same in every reachable state of the document: no step changes it, not  *)
(* an append, a change of flags or status, or a save and load; the message *)
(* a waiting call holds and the message every record signed are that       *)
(* message.                                                                *)
(***************************************************************************)
C12_MessageStep ==
  /\ \A n \in DocIndexes :
       \E m \in 1..Len(documents') :
         /\ documents'[m].id = documents[n].id
         /\ createDocumentMessage(documents'[m]) = createDocumentMessage(documents[n])
  /\ \A m \in 1..Len(documents') :
       createDocumentMessage(ReviveDocument(stored'[m])) = createDocumentMessage(documents'[m])

C12_OneMessage ==
  /\ \A i \in 1..Len(calls) :
       LET doc == getDocument(documents, calls[i].doc.id) IN
       doc # Null => calls[i].message = createDocumentMessage(doc)
  /\ \A n \in DocIndexes :
       \A i \in 1..Len(documents[n].signatures) :
         documents[n].signatures[i].signature.digest
           = hashMessage(createDocumentMessage(documents[n]))

C12_MessageStable == []C12_OneMessage /\ [][C12_MessageStep]_vars

\* two users signed a document, with a load of the collection in between,
\* over the same digest
C12_Witness ==
  \E n \in DocIndexes :
    LET d == documents[n] IN
    /\ Len(d.signatures) = 2
    /\ d.status = "complete"
    /\ d.signatures[1].signer.userId # d.signatures[2].signer.userId
    /\ d.signatures[1].signature.digest = d.signatures[2].signature.digest
    /\ d.updatedAt > d.createdAt

(***************************************************************************)
(* C13: in every reachable state, for every entry s of requiredSigners of  *)
(* every document, s.hasSigned is true iff the signatures of the document  *)
(* hold a record whose signer matches s.                                   *)
(***************************************************************************)
FlagsUnder(Match(_, _), d) ==
  \A j \in 1..Len(d.requiredSigners) :
    d.requiredSigners[j].hasSigned
      <=> \E i \in 1..Len(d.signatures) :
            Match(d.requiredSigners[j].userId, d.signatures[i].signer)

C17_SignStep ==
  \A documentId \in DocumentIds :
    LET currentUser == getCurrentUser(login)
        doc == getDocument(documents, documentId)
    IN (/\ signDocument(documentId)
        /\ currentUser # Null
        /\ doc # Null
        /\ ~HasSignatureOf(doc, currentUser))
       => IF \E j \in 1..Len(doc.requiredSigners) :
               IdentityMatch(doc.requiredSigners[j].userId, currentUser)
          THEN /\ Len(calls') = Len(calls) + 1
               /\ lastCall' = lastCall
          ELSE /\ lastCall' = Settled("signDocument", NotARequiredSigner, Null)
               /\ calls' = calls

C17_SelfSignStep ==
  \A params \in CreateDocumentParams :
    LET currentUser == getCurrentUser(login) IN
    (/\ Len(documents') = Len(documents) + 1
     /\ params.signImmediately
     /\ createDocument(params))
    => IF \E j \in 1..Len(params.requiredSigners) :
            IdentityMatch(params.requiredSigners[j], currentUser)
       THEN /\ Len(calls') = Len(calls) + 1
            /\ lastCall' = lastCall
       ELSE /\ lastCall'.error = NotARequiredSigner
            /\ calls' = calls

C17_SignAcceptsByPolicy == [][C17_SignStep /\ C17_SelfSignStep]_vars

(***************************************************************************)
(* C18: one match predicate is used everywhere: for every identity and     *)
(* every entry of requiredSigners, the test of signDocument, the test of   *)
(* the self-sign (signDocumentDirect), the hasSigned update on append and  *)
(* the allSignersPresent test of verifyDocument give the same answer.      *)
(***************************************************************************)
C18_OneMatchPredicate ==
  \A n \in DocIndexes :
    \A j \in 1..Len(documents[n].requiredSigners) :
      \A u \in Users :
        LET s == documents[n].requiredSigners[j]
            answer == isRequiredSigner(s, u)
        IN /\ isRequiredSignerDirect(s, u) = answer
           /\ hasSignedNow(s, u) = answer
           /\ hasSignature([signer |-> u], s) = answer

(***************************************************************************)
(* C19: no sequence of operations puts a document in status 'cancelled' or *)
(* 'draft': the status of every document, in memory and in the store, is   *)
(* 'pending', 'partial' or 'complete'.                                     *)
(***************************************************************************)
C19_StatusRange ==
  /\ \A n \in DocIndexes : documents[n].status \in {"pending", "partial", "complete"}
  /\ \A n \in 1..Len(stored) : stored[n].status \in {"pending", "partial", "complete"}

\* a partly signed document, read from the store after a logout
C19_Witness ==
  /\ login = Null
  /\ lastCall.op = "mount"
  /\ \E n \in DocIndexes :
       /\ documents[n].status = "partial"
       /\ stored[n].status = "partial"

(***************************************************************************)
(* C14: verifyDocument returns valid = signaturesValid /\ contentHashValid *)
(* /\ allSignersPresent, where signaturesValid holds iff verifySignature   *)
(* is valid for every stored signature, contentHashValid iff the hash of   *)
(* the canonical form of content.data, computed anew, equals content.hash, *)
(* and allSignersPresent iff every required signer has a signature whose   *)
(* signer it names (by user id or e-mail).                                 *)
(***************************************************************************)
VerificationAsStated(d, v) ==
  /\ v.valid = (v.signaturesValid /\ v.contentHashValid /\ v.allSignersPresent)
  /\ v.signaturesValid
       = (\A i \in 1..Len(d.signatures) : verifySignature(d.signatures[i], d).valid)
  /\ v.contentHashValid = (keccak256(CanonicalForm(d.content)) = d.content.hash)
  /\ v.allSignersPresent
       = (\A j \in 1..Len(d.requiredSigners) :
            \E i \in 1..Len(d.signatures) :
              ExactMatch(d.requiredSigners[j].userId, d.signatures[i].signer))

WithCache(d, st, t, f, b) ==
  [d EXCEPT !.status = st,
            !.updatedAt = t,
            !.requiredSigners = [j \in 1..Len(@) |-> [@[j] EXCEPT !.hasSigned = f]],
            !.signatures = [i \in 1..Len(@) |->
                              IF b THEN [@[i] EXCEPT !.verified = TRUE, !.verifiedAt = t]
                              ELSE @[i]]]

SameVerdict(v, w) ==
  /\ v.valid = w.valid
  /\ v.signaturesValid = w.signaturesValid
  /\ v.contentHashValid = w.contentHashValid
  /\ v.allSignersPresent = w.allSignersPresent

C15_CacheIgnored ==
  \A n \in DocIndexes :
    \A st \in {"pending", "partial", "complete", "cancelled"} :
      \A t \in {0, 3} : \A f \in BOOLEAN : \A b \in BOOLEAN :
        SameVerdict(verifyDocument(WithCache(documents[n], st, t, f, b), clock),
                    verifyDocument(documents[n], clock))

C15_VerifyStep ==
  \A documentId \in DocumentIds :
    verifyDocumentCall(documentId) => documents' = documents /\ stored' = stored

C15_VerifyFromRecords == []C15_CacheIgnored /\ [][C15_VerifyStep]_vars

\* a document whose cache says 'pending' was verified as valid
C15_Witness ==
  /\ lastCall.op = "verifyDocument" /\ lastCall.error = NoError
  /\ lastCall.value.valid
  /\ \E n \in DocIndexes :
       /\ documents[n].status = "pending"
       /\ Len(documents[n].signatures) = 2

(***************************************************************************)
(* C16: verifySignature does not raise: for a record whose signature bytes *)
(* cannot be recovered it returns valid = false, addressMatch = false and  *)
(* an error string; verifyDocument on a document with such a record        *)
(* returns, with signaturesValid = false and one entry of errors for each  *)
(* signature that is not valid.                                            *)
(***************************************************************************)
InvalidSignatures(d) ==
  { i \in 1..Len(d.signatures) : ~verifySignature(d.signatures[i], d).valid }

C16_Unrecoverable ==
  \A n \in DocIndexes :
    LET d == documents[n]
        v == verifyDocument(d, clock)
    IN \A i \in 1..Len(d.signatures) :
         ~WellFormed(d.signatures[i].signature)
           => /\ verifySignature(d.signatures[i], d).valid = FALSE
              /\ verifySignature(d.signatures[i], d).addressMatch = FALSE
              /\ verifySignature(d.signatures[i], d).error # Undefined
              /\ v.signaturesValid = FALSE
              /\ Len(v.errors) = Cardinality(InvalidSignatures(d))
                                   + (IF v.allSignersPresent THEN 0 ELSE 1)

C16_VerifyReturns ==
  \A documentId \in DocumentIds :
    (verifyDocumentCall(documentId) /\ getDocument(documents, documentId) # Null)
      => /\ lastCall'.error = NoError
         /\ lastCall'.value = verifyDocument(getDocument(documents, documentId), clock)

C16_NeverRaises == []C16_Unrecoverable /\ [][C16_VerifyReturns]_vars

\* a document with a record of malformed bytes was verified
C16_Witness ==
  /\ lastCall.op = "verifyDocument" /\ lastCall.error = NoError
  /\ ~lastCall.value.signaturesValid
  /\ Len(lastCall.value.errors) >= 1
  /\ \E n \in DocIndexes : \E i \in 1..Len(documents[n].signatures) :
       documents[n].signatures[i].signature = MalformedSignature

(***************************************************************************)
(* C20: canonicalizeJSON does not depend on the order of the keys: a value *)
(* and the same value with the keys of any of its objects, at any depth,   *)
(* in another order get the same string and so the same content hash. The  *)
(* order of array elements is kept: the value with its arrays reversed     *)
(* gets another string.                                                    *)
(***************************************************************************)
\* the orders of n properties
Orders(n) == { f \in [1..n -> 1..n] : \A i, j \in 1..n : f[i] = f[j] => i = j }

\* v with the properties of its objects, at every depth, in every order
RECURSIVE KeyPermutations(_)
KeyPermutations(v) ==
  IF v.t = "array"
  THEN LET n == Len(v.items)
           all == UNION { KeyPermutations(v.items[i]) : i \in 1..n }
       IN { JArray(c) : c \in { c \in [1..n -> all] :
                                  \A i \in 1..n : c[i] \in KeyPermutations(v.items[i]) } }
  ELSE IF v.t = "object"
  THEN LET n == Len(v.kv)
           all == UNION { KeyPermutations(v.kv[i].v) : i \in 1..n }
       IN { JObject([i \in 1..n |-> Prop(v.kv[f[i]].k, c[f[i]])]) :
              f \in Orders(n),
              c \in { c \in [1..n -> all] :
                        \A i \in 1..n : c[i] \in KeyPermutations(v.kv[i].v) } }
  ELSE {v}

\* v with the elements of its arrays, at every depth, in reverse order
RECURSIVE ReverseArrays(_)
ReverseArrays(v) ==
  IF v.t = "array"
  THEN JArray([i \in 1..Len(v.items) |-> ReverseArrays(v.items[Len(v.items) + 1 - i])])
  ELSE IF v.t = "object"
  THEN JObject([i \in 1..Len(v.kv) |-> Prop(v.kv[i].k, ReverseArrays(v.kv[i].v))])
  ELSE v

C20_KeyOrderIndependent ==
  \A n \in DocIndexes :
    LET d == documents[n] IN
    d.content.type = "json" =>
      /\ \A w \in KeyPermutations(d.content.data) :
           /\ canonicalizeJSON(w) = canonicalizeJSON(d.content.data)
           /\ hashDocumentContent([d.content EXCEPT !.data = w]) = d.content.hash
      /\ ReverseArrays(d.content.data) \notin KeyPermutations(d.content.data)
           => canonicalizeJSON(ReverseArrays(d.content.data))
                # canonicalizeJSON(d.content.data)

\* a document whose data holds objects at two depths, written with their
\* keys not in sorted order, and an array
C20_Witness ==
  \E n \in DocIndexes :
    LET data == documents[n].content.data IN
    /\ documents[n].content.type = "json"
    /\ data \in NestedObjects
    /\ Cardinality(KeyPermutations(data)) = 8
    /\ data.kv[1].k = <<"c">>
    /\ ReverseArrays(data) # data
    /\ lastCall.op = "verifyDocument" /\ lastCall.error = NoError /\ lastCall.value.contentHashValid

(***************************************************************************)
(* C21: a structured value that holds something without a JSON             *)
(* representation is rejected.                                             *)
(***************************************************************************)
\* obj holds an undefined somewhere
RECURSIVE HasUnsupported(_)
HasUnsupported(obj) ==
  IF obj = JUndefined THEN TRUE
  ELSE IF obj.t = "array" THEN \E i \in 1..Len(obj.items) : HasUnsupported(obj.items[i])
  ELSE IF obj.t = "object" THEN \E i \in 1..Len(obj.kv) : HasUnsupported(obj.kv[i].v)
  ELSE FALSE

\* createDocument with such a value settles with UnsupportedValue and adds nothing
C21_CreateStep ==
  \A params \in CreateDocumentParams :
    ( /\ params.contentType = "json"
      /\ params.contentData.kind = "object"
      /\ HasUnsupported(params.contentData.value)
      /\ getCurrentUser(login) # Null
      /\ createDocument(params) )
    => /\ lastCall'.op = "createDocument"
       /\ lastCall'.error = "UnsupportedValue"
       /\ documents' = documents

\* no document of the collection was made from such a value
C21_NoPlaceholderDocument ==
  \A n \in 1..Len(documents) :
    documents[n].content.type = "json" => ~HasUnsupported(documents[n].content.data)

\* C21: canonicalizing a structured value that holds an undefined fails with
\* UnsupportedValue: no canonical string with a placeholder token is hashed and
\* no document is created from the value
C21_UnsupportedRejected == []C21_NoPlaceholderDocument /\ [][C21_CreateStep]_vars

(***************************************************************************)
(* Replay: the load effect reads two documents, and the newer one holds a  *)
(* signature record copied in the store from the older one.                *)
(***************************************************************************)
\* the documents a record of A can be copied to: created later by alice with
\* A's content and required signers, unsigned or signed by bob; under another
\* id and creation date, under another id only, under another date only
ReplayTargets(A) ==
  LET fresh == { NewDocument(id, A.content, Alice, t, SignerIds(A)) :
                   id \in {"doc_0", "doc_1"}, t \in {0, 1} }
  IN { B \in fresh \cup { SignedBy(d, Bob, 2) : d \in fresh } :
         B.id # A.id \/ B.createdAt # A.createdAt }

\* the collections read: the target with a record of A, then A
ReplayCollections ==
  UNION { UNION { { <<WithRecord(B, A.signatures[i]), A>> : i \in 1..Len(A.signatures) } :
                    B \in ReplayTargets(A) } :
            A \in WrittenDocuments }

InitReplay ==
  /\ login \in Logins
  /\ documents \in ReplayCollections
  /\ currentDocument = Null
  /\ stored = SaveDocuments(documents)
  /\ calls = <<>>
  /\ clock = 3
  /\ lastCall = Settled("mount", NoError, Null)
  /\ mount = Mounted

NextReplay ==
  \/ \E documentId \in DocumentIds : verifyDocumentCall(documentId)
  \/ \E documentId \in DocumentIds : selectDocument(documentId)
  \/ \E l \in Logins \cup {Null} : Remount(l)

SpecReplay == InitReplay /\ [][NextReplay]_vars

(***************************************************************************)
(* C22: a signature is not accepted on another document.                   *)
(***************************************************************************)
\* C22: a record produced for document A (one that verifies against A), placed
\* in the signatures of a document B whose id or creation date differs from
\* A's, fails verifySignature against B, and verifyDocument of B is not valid
C22_NoReplay ==
  \A a, b \in DocIndexes :
    LET A == documents[a]
        B == documents[b]
    IN (a # b /\ (B.id # A.id \/ B.createdAt # A.createdAt)) =>
         \A i \in 1..Len(A.signatures) : \A j \in 1..Len(B.signatures) :
           (verifySignature(A.signatures[i], A).valid /\ B.signatures[j] = A.signatures[i])
             => /\ ~verifySignature(B.signatures[j], B).valid
                /\ ~verifyDocument(B, clock).valid

\* verifyDocument was called on a document that holds a record of the other
\* one beside bob's own signature, so that every required signer is present
C22_Witness ==
  /\ Len(documents) = 2
  /\ lastCall.op = "verifyDocument"
  /\ lastCall.error = NoError
  /\ documents[1].id # documents[2].id
  /\ documents[1].createdAt = documents[2].createdAt
  /\ Len(documents[1].signatures) = 2
  /\ documents[1].signatures[2] = documents[2].signatures[1]
  /\ allSignersPresent(documents[1])
  /\ contentHashValid(documents[1])

(***************************************************************************)
(* The mount, effect by effect. After the first render (documents = [])    *)
(* React runs the effects in the order of their declaration: the load      *)
(* effect, then the save effect, each with the documents of the render     *)
(* that scheduled it. A state update an effect makes is queued and applied *)
(* by the next render, after which the save effect runs again since        *)
(* documents changed. A development build (Strict Mode, which Next.js      *)
(* turns on by default) runs the effects of the first render twice before  *)
(* that render.                                                            *)
(***************************************************************************)
LoadEffect == [kind |-> "load"]
SaveEffect(docs) == [kind |-> "save", documents |-> docs]

\* the effects scheduled by the first render
FirstCommit(strict) ==
  IF strict
  THEN <<LoadEffect, SaveEffect(<<>>), LoadEffect, SaveEffect(<<>>)>>
  ELSE <<LoadEffect, SaveEffect(<<>>)>>

\* the items a store holds when the page is opened: one written document
\* (mount.item keeps the item for the whole mount)
MountStores == { SaveDocuments(<<d>>) : d \in WrittenDocuments }

InitMount ==
  /\ login \in Logins
  /\ documents = <<>>
  /\ currentDocument = Null
  /\ stored \in MountStores
  /\ calls = <<>>
  /\ clock = 3
  /\ lastCall = Settled("mount", NoError, Null)
  /\ mount \in { [item |-> stored, effects |-> FirstCommit(strict), updates |-> <<>>] :
                    strict \in BOOLEAN }

\* the load effect: the item is a string ('[]' at least), so it is parsed and
\* setDocuments(docs) is called
runLoadEffect ==
  /\ mount.effects # <<>>
  /\ Head(mount.effects).kind = "load"
  /\ mount' = [mount EXCEPT !.effects = Tail(@),
                            !.updates = Append(@, LoadDocuments(stored))]
  /\ UNCHANGED <<login, documents, currentDocument, stored, calls, clock, lastCall>>

\* the save effect, with the documents of the render that scheduled it
runSaveEffect ==
  /\ mount.effects # <<>>
  /\ Head(mount.effects).kind = "save"
  /\ stored' = SaveDocuments(Head(mount.effects).documents)
  /\ mount' = [mount EXCEPT !.effects = Tail(@)]
  /\ UNCHANGED <<login, documents, currentDocument, calls, clock, lastCall>>

\* the render that applies the queued state updates, the last one standing,
\* and schedules the save effect for the new documents
render ==
  /\ mount.effects = <<>>
  /\ mount.updates # <<>>
  /\ documents' = mount.updates[Len(mount.updates)]
  /\ mount' = [mount EXCEPT !.effects = <<SaveEffect(documents')>>, !.updates = <<>>]
  /\ UNCHANGED <<login, currentDocument, stored, calls, clock, lastCall>>

NextMount ==
  \/ runLoadEffect
  \/ runSaveEffect
  \/ render

SpecMount == InitMount /\ [][NextMount]_vars

(***************************************************************************)
(* C23: a restart loses nothing.                                           *)
(***************************************************************************)
\* C23: mounted on a store that holds a non-empty collection, the provider
\* ends, whether the effects run once or twice, with the in-memory
\* collection equal to the persisted one (dates restored), and the store does
\* not end up with fewer documents than it held before the mount
C23_RestartLosesNothing ==
  (mount.effects = <<>> /\ mount.updates = <<>>)
    => /\ documents = LoadDocuments(mount.item)
       /\ Len(stored) >= Len(mount.item)

(***************************************************************************)
(* C24: createDocument adds its document or leaves the collection alone.   *)
(***************************************************************************)
\* createDocument throws before the wallet is asked: the collection is as before
C24_ThrowStep ==
  ( /\ lastCall'.op = "createDocument"
    /\ lastCall'.error # NoError
    /\ \E params \in CreateDocumentParams : createDocument(params) )
  => documents' = documents

\* createDocument throws after the wallet failed or the user rejected: the
\* document of the call is not in the collection
C24_RejectedStep ==
  \A i \in 1..Len(calls) :
    (calls[i].kind = "signDocumentDirect" /\ signDocumentDirectResume(i, Null))
      => /\ lastCall'.error = SigningFailed
         /\ getDocument(documents', calls[i].doc.id) = Null

\* createDocument returns: one document more, at the head, the others as before
C24_ReturnStep ==
  ( /\ lastCall'.op = "createDocument"
    /\ lastCall'.error = NoError
    /\ \E params \in CreateDocumentParams :
         ~params.signImmediately /\ createDocument(params) )
  => /\ Len(documents') = Len(documents) + 1
     /\ Tail(documents') = documents

\* C24: createDocument is all-or-nothing: when it throws (no login, invalid
\* JSON, a PDF that is no File, a failed or rejected self-sign) the collection
\* is the one before the call, and when it returns exactly one document was
\* added and the others are unchanged
C24_AllOrNothing == [][C24_ThrowStep /\ C24_RejectedStep /\ C24_ReturnStep]_vars

(***************************************************************************)
(* C25: a valid document was signed by every required signer.              *)
(***************************************************************************)
\* the signature bytes of the record come from the wallet of the identity the
\* record names
SignedByNamedSigner(sig) ==
  \E u \in Users : /\ u.userId = sig.signer.userId
                   /\ WellFormed(sig.signature)
                   /\ sig.signature.key = toLowerCase(u.walletAddress)

\* C25: when verifyDocument(d) is valid every required signer really signed:
\* each entry is matched by a record whose signature bytes were made by the
\* wallet of the signer the record names; a record that names X and holds
\* another party's signature and wallet address does not count for X
C25_ValidMeansSigned ==
  \A n \in DocIndexes :
    LET d == documents[n] IN
    verifyDocument(d, clock).valid =>
      \A j \in 1..Len(d.requiredSigners) :
        \E i \in 1..Len(d.signatures) :
          /\ hasSignature(d.signatures[i], d.requiredSigners[j])
          /\ SignedByNamedSigner(d.signatures[i])

(***************************************************************************)
(* C26: the signed message binds the fields it shows.                      *)
(***************************************************************************)
\* document d with one field the message shows changed in the store: the id,
\* the hash alone, the data with the hash and every record's documentHash,
\* the creation date, the order of the required signers, one identifier, two
\* entries made one
MessageFieldEdits(d) ==
  LET n == Len(d.requiredSigners) IN
  { [d EXCEPT !.id = "doc_9"] }
    \cup { [d EXCEPT !.content.hash = keccak256("other")] }
    \cup { [d EXCEPT !.content.data = x,
                     !.content.hash = hashDocumentContent([d.content EXCEPT !.data = x]),
                     !.signatures =
                        [i \in 1..Len(@) |->
                           [@[i] EXCEPT !.documentHash =
                              hashDocumentContent([d.content EXCEPT !.data = x])]]] :
             x \in CanonicalEdits(d) }
    \cup { [d EXCEPT !.createdAt = 5] }
    \cup { [d EXCEPT !.requiredSigners = [j \in 1..n |-> @[n + 1 - j]]] }
    \cup { [d EXCEPT !.requiredSigners[x[1]].userId = x[2]] :
             x \in { y \in (1..n) \X SignerIdentifiers :
                       y[2] # d.requiredSigners[y[1]].userId } }
    \cup { [d EXCEPT !.requiredSigners =
                        <<[@[1] EXCEPT !.userId = d.requiredSigners[1].userId \o ", "
                                                     \o d.requiredSigners[2].userId]>>] }

\* document d with its content.type changed
TypeEdits(d) ==
  { [d EXCEPT !.content.type = t] : t \in {"text", "json", "pdf"} \ {d.content.type} }

\* C26: after a document was signed, a change of any field the message
\* covers (id, content.type, content.hash, also with data and every record's
\* documentHash changed along, createdAt, the identifiers or the order of
\* requiredSigners) makes addressMatch false for every signature it holds and
\* verifyDocument not valid
C26_MessageFieldsBound ==
  \A n \in DocIndexes :
    LET d == documents[n] IN
    (d \in WrittenDocuments /\ Len(d.signatures) >= 1 /\ Len(d.requiredSigners) = 2) =>
      /\ \A e \in MessageFieldEdits(d) \cup TypeEdits(d) :
           \A i \in 1..Len(e.signatures) : ~verifySignature(e.signatures[i], e).addressMatch
      /\ \A e \in MessageFieldEdits(d) : ~verifyDocument(e, clock).valid

(***************************************************************************)
(* C27: a failed verification says why.                                    *)
(***************************************************************************)
\* C27: whenever verifyDocument returns valid = false its errors list is not
\* empty: an invalid signature, a content-hash mismatch and a missing signer
\* each add at least one entry
C27_ErrorsExplain ==
  (lastCall.op = "verifyDocument" /\ lastCall.error = NoError /\ ~lastCall.value.valid)
    => lastCall.value.errors # <<>>

(***************************************************************************)
(* C28: the status only moves forward.                                     *)
(***************************************************************************)
StatusRank(status) ==
  CASE status = "pending" -> 0
    [] status = "partial" -> 1
    [] status = "complete" -> 2

\* no step takes the status of a document back
C28_StatusStep ==
  \A n \in DocIndexes : \A m \in 1..Len(documents') :
    documents'[m].id = documents[n].id
      => StatusRank(documents'[m].status) >= StatusRank(documents[n].status)

\* a document that holds a signature is not pending
C28_SignedNotPending ==
  \A n \in DocIndexes :
    Len(documents[n].signatures) >= 1 => documents[n].status # "pending"

\* C28: the status of a document moves only pending -> partial -> complete
\* across sign operations: once complete it stays complete, and a document
\* with at least one signature is never pending
C28_StatusMonotone == []C28_SignedNotPending /\ [][C28_StatusStep]_vars

\* a document of two required signers, complete, on which a further sign was
\* then refused
C28_Witness ==
  /\ lastCall = Settled("signDocument", AlreadySigned, Null)
  /\ \E n \in DocIndexes :
       /\ documents[n].status = "complete"
       /\ Len(documents[n].requiredSigners) = 2
       /\ Len(documents[n].signatures) >= 2

(***************************************************************************)
(* C29: getSignatureStatus agrees with the lifecycle.                      *)
(***************************************************************************)
\* the number of required signers of d that a signature record matches
MatchedSigners(d) ==
  Cardinality({ j \in 1..Len(d.requiredSigners) :
                  \E i \in 1..Len(d.signatures) :
                    hasSignature(d.signatures[i], d.requiredSigners[j]) })

\* C29: getSignatureStatus(d).signed is the number of required signers with a
\* matching signature, so signed <= total and percentage <= 100, and complete
\* is true exactly when d.status is 'complete'
C29_StatusAgrees ==
  \A n \in DocIndexes :
    LET d == documents[n]
        s == getSignatureStatus(d)
    IN /\ s.signed = MatchedSigners(d)
       /\ s.signed <= s.total
       /\ s.percentage <= 100
       /\ s.complete <=> (d.status = "complete")

(***************************************************************************)
(* C30: canonicalizeJSON tells JSON values apart.                          *)
(***************************************************************************)
\* C30: canonicalizeJSON is injective on JSON values, also on objects whose
\* keys hold a quote or a backslash: a value with the canonical string of a
\* document's data is that data, up to the order of its keys
C30_CanonicalInjective ==
  \A n \in DocIndexes :
    LET d == documents[n] IN
    d.content.type = "json" =>
      \A w \in CanonValues :
        canonicalizeJSON(w) = canonicalizeJSON(d.content.data)
          => w \in KeyPermutations(d.content.data)

====
